---- MODULE Spec2Model ----
(***************************************************************************)
(* Model of the PLDM firmware-update device state machine                  *)
(* (fw-update/device_updater.cpp, class DeviceUpdater) and of the          *)
(* state-sensor event bridge (DbusToPLDMEvent), which share the            *)
(* instance-id allocator and the request handler of one endpoint.          *)
(*                                                                         *)
(* Every handler runs to completion on the single-threaded event loop, so  *)
(* each handler is one action.  A deferred event source (pldmRequest) is   *)
(* dispatched at the next loop iteration, before any other event is read:  *)
(* every other action is therefore guarded by NoDeferred.                  *)
(***************************************************************************)
EXTENDS Integers, Sequences, FiniteSets, TLC

\* ---------------------------------------------------------------- bounds
MaxComponents == 2      \* largest |applicable_components| explored
NumInstanceIds == 2     \* size of the instance-id pool explored (real: 32)
MaxCalls == 2           \* updateDeviceCompletion calls explored per session
MaxOrderlyComponents == 3 \* largest |applicable_components|, orderly device
MaxHappyComponents == 5 \* largest |applicable_components| in SpecHappy

\* ------------------------------------------------------ program constants
PLDM_FWUP_BASELINE_TRANSFER_SIZE == 32
PLDM_SENSOR_UNKNOWN == 255
PLDM_START == 1
PLDM_MIDDLE == 2
PLDM_END == 4
PLDM_START_AND_END == 5

Ids == 0 .. (NumInstanceIds - 1)
NoId == -1

Resps == {"none", "undecodable", "err", "ok"}
\* What a TransferComplete, VerifyComplete or ApplyComplete request of the
\* device carries: it cannot be decoded, or it reports a result.
DeviceReqs == {"undecodable", "success", "failure"}
SuccessResults == {"success"}
ApplySuccessResults == {"success", "success_with_activation_method"}

VARIABLES
    listening,              \* listenSensorEvent has run
    numComponents,          \* applicableComponents.size(), fixed per session
    started,                \* startFwUpdateFlow has been called
    componentIndex,         \* DeviceUpdater::componentIndex
    componentUpdateStatus,  \* DeviceUpdater::componentUpdateStatus (std::map)
    pldmRequest,            \* DeviceUpdater::pldmRequest (deferred source)
    reqFwDataTimer,         \* DeviceUpdater::reqFwDataTimer: null/armed/expired
    idInUse,                \* InstanceIdDb: ids handed out and not freed
    outstanding,            \* Handler: registered requests awaiting a response
    sensorCacheMap,         \* DbusToPLDMEvent::sensorCacheMap
    stateSensorMatchs,      \* DbusToPLDMEvent::stateSensorMatchs
    \* ---- observation of the run (history), not program state
    phase,                  \* protocol phase of the session
    tracing,                \* whether sent and response are being recorded
    sent,                   \* requests registered by the FUD-SM, in order
    completions,            \* calls of updateDeviceCompletion, per argument
    doubleFree,             \* the last step freed an id that was not in use
    succeeded,              \* some component reached ApplyComplete success
    response,               \* last RequestFirmwareData request and response
    lastEmitted             \* per (sensor, offset): state last emitted as new

vars == <<listening, numComponents, started, componentIndex, componentUpdateStatus,
          pldmRequest, reqFwDataTimer, idInUse, outstanding, sensorCacheMap,
          stateSensorMatchs, phase, tracing, sent, completions, doubleFree, succeeded,
          response, lastEmitted>>

fudVars == <<componentIndex, componentUpdateStatus, pldmRequest,
             reqFwDataTimer>>
ssebVars == <<listening, sensorCacheMap, stateSensorMatchs, lastEmitted>>

\* ------------------------------------------------------------- helpers
EmptyMap == [x \in {} |-> TRUE]

MapSet(m, k, v) == [x \in (DOMAIN m) \cup {k} |-> IF x = k THEN v ELSE m[x]]

NoTask == [task |-> "none", off |-> 0]

\* Variant: the callback schedules nothing.
Defer_Dropped(task, off) == NoTask

Defer(task, off) == [task |-> task, off |-> off]

NoDeferred == pldmRequest = NoTask

\* ------------------------------------------- instance ids and the handler
\* The allocator and the handler as the operations of one step see them.
Pool == [inUse |-> idInUse, out |-> outstanding, sent |-> sent,
         dfree |-> FALSE]

\* The step calls neither the allocator nor the handler.
NoSend ==
    /\ UNCHANGED <<idInUse, outstanding, sent>>
    /\ doubleFree' = FALSE

SetPool(p) ==
    /\ idInUse' = p.inUse
    /\ outstanding' = p.out
    /\ sent' = p.sent
    /\ doubleFree' = p.dfree

\* instanceIdDb.next(eid): an unused id (the lowest one), or none when the
\* pool is exhausted
NextIds ==
    IF Ids \ idInUse = {} THEN {NoId}
    ELSE {CHOOSE id \in Ids \ idInUse : \A j \in Ids \ idInUse : id <= j}

Alloc(p, id) == [p EXCEPT !.inUse = @ \cup {id}]

\* instanceIdDb.free(eid, id)
Free(p, id) == [p EXCEPT !.inUse = @ \ {id},
                         !.dfree = @ \/ (id \notin p.inUse)]

ReqKey(id, cmd) == [id |-> id, cmd |-> cmd]

ReqMsg(cmd, off, flag) == [cmd |-> cmd, off |-> off, flag |-> flag]

\* handler.registerRequest: records the transaction under its key and
\* returns 0, or returns an error and releases the id of the request it
\* could not send.
RegisterOk(p, id, cmd, regOk) == regOk /\ ReqKey(id, cmd) \notin p.out

registerRequest(p, id, msg, regOk) ==
    IF RegisterOk(p, id, msg.cmd, regOk)
    THEN [p EXCEPT !.out = @ \cup {ReqKey(id, msg.cmd)},
                   !.sent = IF tracing /\ msg.cmd # "PlatformEventMessage"
                            THEN Append(@, msg) ELSE @]
    ELSE Free(p, id)

\* Does the send operation return right after freeing the id when the
\* codec rejects the request?
ReturnsOnEncodeFailure(cmd) ==
    cmd \in {"CancelUpdateComponent", "PlatformEventMessage"}

\* The common body of the send operations: next(eid), encode, free on
\* encode failure, registerRequest.
SendRequest(p, id, msg, encOk, regOk) ==
    IF id = NoId THEN p
    ELSE LET a == Alloc(p, id)
             e == IF encOk THEN a ELSE Free(a, id)
         IN IF ~encOk /\ ReturnsOnEncodeFailure(msg.cmd) THEN e
            ELSE registerRequest(e, id, msg, regOk)

\* The send registered its request with the handler.
Registered(id, cmd, encOk, regOk) ==
    /\ id # NoId
    /\ encOk \/ ~ReturnsOnEncodeFailure(cmd)
    /\ RegisterOk(Pool, id, cmd, regOk)

PhaseOf(cmd) ==
    CASE cmd = "RequestUpdate" -> "RequestUpdate"
      [] cmd = "PassComponentTable" -> "PassCompTable"
      [] cmd = "UpdateComponent" -> "UpdateComponent"
      [] cmd = "ActivateFirmware" -> "Activating"
      [] cmd = "CancelUpdateComponent" -> "Cancelling"

PhaseAfterSend(id, cmd, encOk, regOk) ==
    IF Registered(id, cmd, encOk, regOk) THEN PhaseOf(cmd) ELSE phase

\* updateManager->updateDeviceCompletion(eid, ok)
updateDeviceCompletion(c, ok) ==
    IF ok THEN [c EXCEPT !.t = @ + 1] ELSE [c EXCEPT !.f = @ + 1]

\* ------------------------------------------------------ package contents
\* Sizes of the component images of the package, by position in
\* applicableComponents, and the transfer size negotiated for the device.
CompSize(i) == IF i % 2 = 0 THEN 64 ELSE 96
MaxTransferSize == 64

\* uint32_t values are pairs <<high half, low half>> of 16-bit halves, so
\* that the fixed-width sum wraps as it does in the program.
Half == 65536

U32(n) == <<n \div Half, n % Half>>

Add32(a, b) ==
    LET lo == a[2] + b[2]
        hi == a[1] + b[1] + (lo \div Half)
    IN <<hi % Half, lo % Half>>

Gt32(a, b) == a[1] > b[1] \/ (a[1] = b[1] /\ a[2] > b[2])

\* a - b in uint32_t
Sub32(a, b) ==
    LET lo == a[2] - b[2]
        hi == a[1] - b[1] - (IF lo < 0 THEN 1 ELSE 0)
    IN <<hi % Half, lo % Half>>

\* ------------------------------------------------- FUD-SM send operations
\* Variant: the test for the first position comes before the test for a
\* single component.
TransferFlag_StartFirst(offset, n) ==
    IF offset = 0 THEN PLDM_START
    ELSE IF n = 1 THEN PLDM_START_AND_END
    ELSE IF offset = n - 1 THEN PLDM_END
    ELSE PLDM_MIDDLE

TransferFlag(offset, n) ==
    IF n = 1 THEN PLDM_START_AND_END
    ELSE IF offset = 0 THEN PLDM_START
    ELSE IF offset = n - 1 THEN PLDM_END
    ELSE PLDM_MIDDLE

SendFud(id, cmd, off, flag, encOk, regOk) ==
    SetPool(SendRequest(Pool, id, ReqMsg(cmd, off, flag), encOk, regOk))

sendPassCompTableRequest(offset, id, encOk, regOk) ==
    /\ pldmRequest' = NoTask
    /\ SendFud(id, "PassComponentTable", offset,
               TransferFlag(offset, numComponents), encOk, regOk)

sendUpdateComponentRequest(offset, id, encOk, regOk) ==
    /\ pldmRequest' = NoTask
    /\ SendFud(id, "UpdateComponent", offset, 0, encOk, regOk)

sendActivateFirmwareRequest(id, encOk, regOk) ==
    /\ pldmRequest' = NoTask
    /\ SendFud(id, "ActivateFirmware", 0, 0, encOk, regOk)

sendCancelUpdateComponentRequest(id, encOk, regOk) ==
    /\ pldmRequest' = NoTask
    /\ SendFud(id, "CancelUpdateComponent", componentIndex, 0, encOk, regOk)

\* Variant: the last-component test compares with size() instead of
\* size() - 1.
IsLastComponent_OffByOne(idx, n) == idx = n

\* componentIndex == applicableComponents.size() - 1
IsLastComponent(idx, n) == idx = n - 1

\* --------------------------------------------------------------- actions
\* Variant: a send that is not registered is reported as a failure of the
\* device.
startFwUpdateFlow_ReportsFailure(id, encOk, regOk) ==
    /\ ~started
    /\ started' = TRUE
    /\ SendFud(id, "RequestUpdate", 0, 0, encOk, regOk)
    /\ phase' = PhaseAfterSend(id, "RequestUpdate", encOk, regOk)
    /\ completions' =
          IF Registered(id, "RequestUpdate", encOk, regOk) THEN completions
          ELSE updateDeviceCompletion(completions, FALSE)
    /\ UNCHANGED <<response, tracing, numComponents, fudVars, ssebVars,
                   succeeded>>

startFwUpdateFlow(id, encOk, regOk) ==
    /\ ~started
    /\ started' = TRUE
    /\ SendFud(id, "RequestUpdate", 0, 0, encOk, regOk)
    /\ phase' = PhaseAfterSend(id, "RequestUpdate", encOk, regOk)
    /\ UNCHANGED <<response, tracing, numComponents, fudVars, ssebVars, completions,
                   succeeded>>

\* The deferred source fires: the bound send operation runs.
RunDeferred(id, encOk, regOk) ==
    /\ pldmRequest # NoTask
    /\ LET off == pldmRequest.off
           cmd == CASE pldmRequest.task = "sendPassCompTableRequest"
                         -> "PassComponentTable"
                    [] pldmRequest.task = "sendUpdateComponentRequest"
                         -> "UpdateComponent"
                    [] pldmRequest.task = "sendActivateFirmwareRequest"
                         -> "ActivateFirmware"
       IN /\ CASE cmd = "PassComponentTable"
                    -> sendPassCompTableRequest(off, id, encOk, regOk)
               [] cmd = "UpdateComponent"
                    -> sendUpdateComponentRequest(off, id, encOk, regOk)
               [] cmd = "ActivateFirmware"
                    -> sendActivateFirmwareRequest(id, encOk, regOk)
          /\ phase' = PhaseAfterSend(id, cmd, encOk, regOk)
    /\ UNCHANGED <<response, tracing, numComponents, started, componentIndex,
                   componentUpdateStatus, reqFwDataTimer, ssebVars,
                   completions, succeeded>>

\* Variant: a response that cannot be decoded is reported as a failure.
requestUpdate_DecodeReports(resp) ==
    /\ IF resp \in {"none", "err", "undecodable"}
       THEN /\ completions' = updateDeviceCompletion(completions, FALSE)
            /\ phase' = "Done"
            /\ UNCHANGED pldmRequest
       ELSE /\ pldmRequest' = Defer("sendPassCompTableRequest",
                                    componentIndex)
            /\ UNCHANGED <<completions, phase>>
    /\ UNCHANGED <<componentIndex, componentUpdateStatus>>

\* ---- response callbacks (the handler has removed the request and frees
\* ---- the instance id; the callback changes the FUD-SM only)
requestUpdate(resp) ==
    /\ IF resp \in {"none", "err"}
       THEN /\ completions' = updateDeviceCompletion(completions, FALSE)
            /\ phase' = "Done"
            /\ UNCHANGED pldmRequest
       ELSE IF resp = "undecodable"
       THEN UNCHANGED <<completions, phase, pldmRequest>>
       ELSE /\ pldmRequest' = Defer("sendPassCompTableRequest",
                                    componentIndex)
            /\ UNCHANGED <<completions, phase>>
    /\ UNCHANGED <<componentIndex, componentUpdateStatus>>

\* Variant: after the last PassComponentTable response componentIndex is
\* not reset before UpdateComponent is scheduled.
passCompTable_NoReset(resp) ==
    IF resp \in {"none", "err"}
    THEN /\ completions' = updateDeviceCompletion(completions, FALSE)
         /\ phase' = "Done"
         /\ UNCHANGED <<pldmRequest, componentIndex, componentUpdateStatus>>
    ELSE IF resp = "undecodable"
    THEN UNCHANGED <<completions, phase, pldmRequest, componentIndex,
                     componentUpdateStatus>>
    ELSE /\ IF IsLastComponent(componentIndex, numComponents)
            THEN /\ componentIndex' = componentIndex
                 /\ pldmRequest' = Defer("sendUpdateComponentRequest",
                                         componentIndex)
            ELSE /\ componentIndex' = componentIndex + 1
                 /\ pldmRequest' = Defer("sendPassCompTableRequest",
                                         componentIndex + 1)
         /\ UNCHANGED <<completions, phase, componentUpdateStatus>>

passCompTable(resp) ==
    IF resp \in {"none", "err"}
    THEN /\ completions' = updateDeviceCompletion(completions, FALSE)
         /\ phase' = "Done"
         /\ UNCHANGED <<pldmRequest, componentIndex, componentUpdateStatus>>
    ELSE IF resp = "undecodable"
    THEN UNCHANGED <<completions, phase, pldmRequest, componentIndex,
                     componentUpdateStatus>>
    ELSE /\ IF IsLastComponent(componentIndex, numComponents)
            THEN /\ componentIndex' = 0
                 /\ pldmRequest' = Defer("sendUpdateComponentRequest", 0)
            ELSE /\ componentIndex' = componentIndex + 1
                 /\ pldmRequest' = Defer("sendPassCompTableRequest",
                                         componentIndex + 1)
         /\ UNCHANGED <<completions, phase, componentUpdateStatus>>

updateComponent(resp) ==
    /\ IF resp = "none"
       THEN /\ completions' = updateDeviceCompletion(completions, FALSE)
            /\ phase' = "Done"
       ELSE IF resp = "undecodable"
       THEN UNCHANGED <<completions, phase>>
       ELSE IF resp = "err"
       THEN \* returns before updateDeviceCompletion(eid, false)
            /\ phase' = "Done"
            /\ UNCHANGED completions
       ELSE /\ phase' = "AwaitingData"
            /\ UNCHANGED completions
    /\ UNCHANGED <<pldmRequest, componentIndex, componentUpdateStatus>>

\* Variant: a non-zero completion code makes the callback return before it
\* reports.
activateFirmware_ErrReturns(resp) ==
    /\ IF resp = "none"
       THEN /\ completions' = updateDeviceCompletion(completions, FALSE)
            /\ phase' = "Done"
       ELSE IF resp = "undecodable"
       THEN UNCHANGED <<completions, phase>>
       ELSE IF resp = "err"
       THEN /\ phase' = "Done"
            /\ UNCHANGED completions
       ELSE /\ completions' = updateDeviceCompletion(completions, TRUE)
            /\ phase' = "Done"
    /\ UNCHANGED <<pldmRequest, componentIndex, componentUpdateStatus>>

activateFirmware(resp) ==
    /\ IF resp \in {"none", "err"}
       THEN /\ completions' = updateDeviceCompletion(completions, FALSE)
            /\ phase' = "Done"
       ELSE IF resp = "undecodable"
       THEN UNCHANGED <<completions, phase>>
       ELSE /\ completions' = updateDeviceCompletion(completions, TRUE)
            /\ phase' = "Done"
    /\ UNCHANGED <<pldmRequest, componentIndex, componentUpdateStatus>>

AnyComponentSucceeded(status) == \E k \in DOMAIN status : status[k]

cancelUpdateComponent(resp) ==
    IF resp # "ok"
    THEN UNCHANGED <<completions, phase, pldmRequest, componentIndex,
                     componentUpdateStatus>>
    ELSE IF IsLastComponent(componentIndex, numComponents)
    THEN IF AnyComponentSucceeded(componentUpdateStatus)
         THEN /\ componentIndex' = 0
              /\ componentUpdateStatus' = EmptyMap
              /\ pldmRequest' = Defer("sendActivateFirmwareRequest", 0)
              /\ UNCHANGED <<completions, phase>>
         ELSE /\ completions' = updateDeviceCompletion(completions, FALSE)
              /\ phase' = "Done"
              /\ UNCHANGED <<pldmRequest, componentIndex,
                             componentUpdateStatus>>
    ELSE /\ componentIndex' = componentIndex + 1
         /\ componentUpdateStatus' =
                MapSet(componentUpdateStatus, componentIndex + 1, TRUE)
         /\ pldmRequest' = Defer("sendUpdateComponentRequest",
                                 componentIndex + 1)
         /\ UNCHANGED <<completions, phase>>

\* platformEventMessageResponseHandler: logs only
platformEventMessageResponse(resp) ==
    UNCHANGED <<completions, phase, pldmRequest, componentIndex,
                componentUpdateStatus>>

\* The handler dispatches the response of a registered request: the
\* callback runs once and the instance id is freed.
HandleResponse(r, resp) ==
    /\ NoDeferred
    /\ r \in outstanding
    /\ SetPool(Free([Pool EXCEPT !.out = @ \ {r}], r.id))
    /\ CASE r.cmd = "RequestUpdate" -> requestUpdate(resp)
         [] r.cmd = "PassComponentTable" -> passCompTable(resp)
         [] r.cmd = "UpdateComponent" -> updateComponent(resp)
         [] r.cmd = "ActivateFirmware" -> activateFirmware(resp)
         [] r.cmd = "CancelUpdateComponent" -> cancelUpdateComponent(resp)
         [] r.cmd = "PlatformEventMessage"
              -> platformEventMessageResponse(resp)
    /\ UNCHANGED <<response, tracing, numComponents, started, reqFwDataTimer, ssebVars,
                   succeeded>>

\* Variant: the timer callback does not mark the component as failed.
RequestFwDataTimerExpiry_NoMark(id, encOk, regOk) ==
    /\ NoDeferred
    /\ reqFwDataTimer = "armed"
    /\ reqFwDataTimer' = "expired"
    /\ sendCancelUpdateComponentRequest(id, encOk, regOk)
    /\ completions' = updateDeviceCompletion(completions, FALSE)
    /\ phase' = PhaseAfterSend(id, "CancelUpdateComponent", encOk, regOk)
    /\ UNCHANGED <<response, tracing, numComponents, started, componentIndex,
                   componentUpdateStatus, ssebVars, succeeded>>

\* ---- timer callback of createRequestFwDataTimer
RequestFwDataTimerExpiry(id, encOk, regOk) ==
    /\ NoDeferred
    /\ reqFwDataTimer = "armed"
    /\ reqFwDataTimer' = "expired"
    /\ componentUpdateStatus' =
           MapSet(componentUpdateStatus, componentIndex, FALSE)
    /\ sendCancelUpdateComponentRequest(id, encOk, regOk)
    /\ completions' = updateDeviceCompletion(completions, FALSE)
    /\ phase' = PhaseAfterSend(id, "CancelUpdateComponent", encOk, regOk)
    /\ UNCHANGED <<response, tracing, numComponents, started, componentIndex, ssebVars,
                   succeeded>>

\* ---- requests initiated by the device
InvalidTransferLength(length) ==
    \/ Gt32(U32(PLDM_FWUP_BASELINE_TRANSFER_SIZE), length)
    \/ Gt32(length, U32(MaxTransferSize))

DataOutOfRange(offset, length, compSize) ==
    Gt32(Add32(offset, length),
         Add32(compSize, U32(PLDM_FWUP_BASELINE_TRANSFER_SIZE)))

\* Completion code of the response to RequestFirmwareData
RequestFwDataCc(decOk, offset, length, compSize) ==
    IF ~decOk THEN "ERROR_INVALID_DATA"
    ELSE IF InvalidTransferLength(length) THEN "INVALID_TRANSFER_LENGTH"
    ELSE IF DataOutOfRange(offset, length, compSize) THEN "DATA_OUT_OF_RANGE"
    ELSE "SUCCESS"

\* size_t padBytes
PadBytes(offset, length, compSize) ==
    IF Gt32(Add32(offset, length), compSize)
    THEN Sub32(Add32(offset, length), compSize)
    ELSE U32(0)

NoResponse ==
    [cc |-> "none", offset |-> U32(0), length |-> U32(0),
     compSize |-> U32(0), payload |-> U32(0), read |-> U32(0)]

\* The response of requestFwData: the completion code, the number of
\* payload bytes after the completion code and the number of bytes read
\* from the package at compOffset + offset; with the request it answers.
Response(decOk, offset, length, compSize) ==
    LET cc == RequestFwDataCc(decOk, offset, length, compSize)
    IN [cc |-> cc,
        offset |-> IF decOk THEN offset ELSE U32(0),
        length |-> IF decOk THEN length ELSE U32(0),
        compSize |-> compSize,
        payload |-> IF cc = "SUCCESS" THEN length ELSE U32(0),
        read |-> IF cc = "SUCCESS"
                 THEN Sub32(length, PadBytes(offset, length, compSize))
                 ELSE U32(0)]

\* Variant: the timer is armed for every request that can be decoded,
\* before its length and range are checked.
requestFwData_TimerFirst(decOk, offset, length, encOk) ==
    /\ NoDeferred
    /\ started
    /\ response' =
          IF tracing
          THEN Response(decOk, offset, length, U32(CompSize(componentIndex)))
          ELSE response
    /\ reqFwDataTimer' = IF decOk /\ encOk THEN "armed" ELSE reqFwDataTimer
    /\ NoSend
    /\ UNCHANGED <<tracing, numComponents, started, componentIndex,
                   componentUpdateStatus, pldmRequest, ssebVars, phase,
                   completions, succeeded>>

\* encOk: the codec accepts the final encode of the response.
requestFwData(decOk, offset, length, encOk) ==
    /\ NoDeferred
    /\ started
    /\ response' =
          IF tracing
          THEN Response(decOk, offset, length, U32(CompSize(componentIndex)))
          ELSE response
    /\ reqFwDataTimer' =
          IF RequestFwDataCc(decOk, offset, length,
                             U32(CompSize(componentIndex))) = "SUCCESS"
             /\ encOk
          THEN "armed" ELSE reqFwDataTimer
    /\ NoSend
    /\ UNCHANGED <<tracing, numComponents, started, componentIndex,
                   componentUpdateStatus, pldmRequest, ssebVars, phase,
                   completions, succeeded>>

\* The failure branch shared by transferComplete, verifyComplete and
\* applyComplete: report, mark the component, send the cancel request.
ComponentFailed(id, encOk, regOk) ==
    /\ completions' = updateDeviceCompletion(completions, FALSE)
    /\ componentUpdateStatus' =
           MapSet(componentUpdateStatus, componentIndex, FALSE)
    /\ sendCancelUpdateComponentRequest(id, encOk, regOk)
    /\ phase' = PhaseAfterSend(id, "CancelUpdateComponent", encOk, regOk)

transferComplete(req, id, encOk, regOk) ==
    /\ NoDeferred
    /\ started
    /\ reqFwDataTimer' = "null"
    /\ IF req = "undecodable"
       THEN /\ NoSend
            /\ UNCHANGED <<componentUpdateStatus, pldmRequest, phase,
                           completions>>
       ELSE IF req \in SuccessResults
       THEN /\ phase' = IF phase = "AwaitingData" THEN "VerifyComplete"
                        ELSE phase
            /\ NoSend
            /\ UNCHANGED <<componentUpdateStatus, pldmRequest, completions>>
       ELSE ComponentFailed(id, encOk, regOk)
    /\ UNCHANGED <<response, tracing, numComponents, started, componentIndex, ssebVars,
                   succeeded>>

verifyComplete(req, id, encOk, regOk) ==
    /\ NoDeferred
    /\ started
    /\ IF req = "undecodable"
       THEN /\ NoSend
            /\ UNCHANGED <<componentUpdateStatus, pldmRequest, phase,
                           completions>>
       ELSE IF req \in SuccessResults
       THEN /\ phase' = IF phase = "VerifyComplete" THEN "ApplyComplete"
                        ELSE phase
            /\ NoSend
            /\ UNCHANGED <<componentUpdateStatus, pldmRequest, completions>>
       ELSE ComponentFailed(id, encOk, regOk)
    /\ UNCHANGED <<response, tracing, numComponents, started, componentIndex,
                   reqFwDataTimer, ssebVars, succeeded>>

applyComplete(req, id, encOk, regOk) ==
    /\ NoDeferred
    /\ started
    /\ IF req = "undecodable"
       THEN /\ NoSend
            /\ UNCHANGED <<componentIndex, componentUpdateStatus,
                           pldmRequest, phase, completions, succeeded>>
       ELSE IF req \in ApplySuccessResults
       THEN /\ IF IsLastComponent(componentIndex, numComponents)
               THEN /\ componentIndex' = 0
                    /\ componentUpdateStatus' = MapSet(EmptyMap, 0, TRUE)
                    /\ pldmRequest' =
                           Defer("sendActivateFirmwareRequest", 0)
               ELSE /\ componentIndex' = componentIndex + 1
                    /\ componentUpdateStatus' =
                           MapSet(componentUpdateStatus, componentIndex + 1,
                                  TRUE)
                    /\ pldmRequest' = Defer("sendUpdateComponentRequest",
                                            componentIndex + 1)
            /\ succeeded' = TRUE
            /\ NoSend
            /\ UNCHANGED <<phase, completions>>
       ELSE /\ ComponentFailed(id, encOk, regOk)
            /\ UNCHANGED <<componentIndex, succeeded>>
    /\ UNCHANGED <<response, tracing, numComponents, started, reqFwDataTimer, ssebVars>>

\* ------------------------------------------------ state-sensor event bridge
\* The dbus maps of the platform: sensor id -> per composite offset, the
\* property type and the ordered value mapping (state code, candidate).
\* Strings are sequences of characters.
DbusMaps ==
    [s \in {1} |->
        << [propertyType |-> "string",
            valueMapping |->
              << [state |-> 3,
                  value |-> <<"o", "n", " ", "|", "|", " ", "u", "p">>],
                 [state |-> 5,
                  value |-> <<"u", "p", "|", "|", "o", "f", "f">>] >>],
           [propertyType |-> "uint8",
            valueMapping |->
              << [state |-> 1, value |-> 0],
                 [state |-> 2, value |-> 1] >>] >>]

\* Sensor ids of the state-sensor PDRs of the repository, in record order.
PdrSensorIds == <<2, 1>>

\* Values a PropertiesChanged signal may carry for the mapped property.
PropertyValues(propertyType) ==
    IF propertyType = "string"
    THEN {<<"o", "n">>, <<"u", "p">>, <<"o", "f", "f">>, <<"o">>}
    ELSE {0, 1, 7}

\* pldm::utils::split(src, "||", " "): the pieces of src between
\* occurrences of "||", stripped of blanks, empty pieces dropped.
DelimAt(str, i) == i + 1 <= Len(str) /\ str[i] = "|" /\ str[i + 1] = "|"

FirstDelim(str) ==
    IF \E i \in 1 .. Len(str) : DelimAt(str, i)
    THEN CHOOSE i \in 1 .. Len(str) :
            DelimAt(str, i) /\ \A j \in 1 .. (i - 1) : ~DelimAt(str, j)
    ELSE 0

RECURSIVE Strip(_)
Strip(str) ==
    IF str = <<>> THEN str
    ELSE IF Head(str) = " " THEN Strip(Tail(str))
    ELSE IF str[Len(str)] = " " THEN Strip(SubSeq(str, 1, Len(str) - 1))
    ELSE str

RECURSIVE split(_)
split(src) ==
    LET d == FirstDelim(src)
        piece == Strip(IF d = 0 THEN src ELSE SubSeq(src, 1, d - 1))
        rest == IF d = 0 THEN <<>> ELSE split(SubSeq(src, d + 2, Len(src)))
    IN IF piece = <<>> THEN rest ELSE <<piece>> \o rest

\* findValue of one value-mapping entry
FindValue(propertyType, candidate, value) ==
    IF propertyType = "string"
    THEN \E i \in 1 .. Len(split(candidate)) : split(candidate)[i] = value
    ELSE candidate = value

\* Variant: the loop does not break, the last matching entry wins.
FirstMatch_Last(propertyType, valueMapping, value) ==
    IF \E i \in 1 .. Len(valueMapping) :
            FindValue(propertyType, valueMapping[i].value, value)
    THEN CHOOSE i \in 1 .. Len(valueMapping) :
            /\ FindValue(propertyType, valueMapping[i].value, value)
            /\ \A j \in (i + 1) .. Len(valueMapping) :
                    ~FindValue(propertyType, valueMapping[j].value, value)
    ELSE 0

\* Position of the entry at which the loop over dbusValueMapping breaks,
\* 0 when it runs to the end.
FirstMatch(propertyType, valueMapping, value) ==
    IF \E i \in 1 .. Len(valueMapping) :
            FindValue(propertyType, valueMapping[i].value, value)
    THEN CHOOSE i \in 1 .. Len(valueMapping) :
            /\ FindValue(propertyType, valueMapping[i].value, value)
            /\ \A j \in 1 .. (i - 1) :
                    ~FindValue(propertyType, valueMapping[j].value, value)
    ELSE 0

CachedState(cache, sensorId, offset) ==
    IF sensorId \in DOMAIN cache THEN cache[sensorId][offset]
    ELSE PLDM_SENSOR_UNKNOWN

PreviousState(cache, sensorId, offset, newState) ==
    IF sensorId \in DOMAIN cache
       /\ cache[sensorId][offset] # PLDM_SENSOR_UNKNOWN
    THEN cache[sensorId][offset]
    ELSE newState

\* updateSensorCacheMaps(sensorId, offset, previousState)
updateSensorCacheMaps(cache, sensorId, offset, state) ==
    LET old == IF sensorId \in DOMAIN cache THEN cache[sensorId]
               ELSE [o \in 0 .. (Len(DbusMaps[sensorId]) - 1) |->
                        PLDM_SENSOR_UNKNOWN]
    IN MapSet(cache, sensorId, [old EXCEPT ![offset] = state])

\* sendEventMsg(PLDM_SENSOR_EVENT, eventDataVec)
sendEventMsg(id, encOk, regOk) ==
    SetPool(SendRequest(Pool, id, ReqMsg("PlatformEventMessage", 0, 0),
                        encOk, regOk))

\* Variant: only the first composite-sensor offset is subscribed to.
Subscriptions_FirstOffsetOnly(sensorId) ==
    IF sensorId \notin DOMAIN DbusMaps THEN <<>>
    ELSE <<[sensorId |-> sensorId, offset |-> 0,
            eventClass |-> <<0, PLDM_SENSOR_UNKNOWN, PLDM_SENSOR_UNKNOWN>>]>>

\* sendStateSensorEvent(sensorId, dbusMaps): the subscriptions it adds, each
\* with the event data vector its callback captures.
Subscriptions(sensorId) ==
    IF sensorId \notin DOMAIN DbusMaps THEN <<>>
    ELSE [i \in 1 .. Len(DbusMaps[sensorId]) |->
            [sensorId |-> sensorId, offset |-> i - 1,
             eventClass |-> <<i - 1, PLDM_SENSOR_UNKNOWN,
                              PLDM_SENSOR_UNKNOWN>>]]

RECURSIVE AllSubscriptions(_)
AllSubscriptions(ids) ==
    IF ids = <<>> THEN <<>>
    ELSE Subscriptions(Head(ids)) \o AllSubscriptions(Tail(ids))

listenSensorEvent ==
    /\ NoDeferred
    /\ ~listening
    /\ listening' = TRUE
    /\ stateSensorMatchs' = stateSensorMatchs \o AllSubscriptions(PdrSensorIds)
    /\ NoSend
    /\ UNCHANGED <<response, tracing, numComponents, started, fudVars, sensorCacheMap,
                   phase, completions, succeeded, lastEmitted>>

\* Variant: the callback does not test whether the signal carries the
\* mapped property.
stateSensorMatch_NoPropertyCheck(k, hasProp, value, id, encOk, regOk) ==
    LET sub == stateSensorMatchs[k]
        sensorId == sub.sensorId
        offset == sub.offset
        mapping == DbusMaps[sensorId][offset + 1]
        m == FirstMatch(mapping.propertyType, mapping.valueMapping, value)
    IN /\ NoDeferred
       /\ IF m = 0
          THEN /\ NoSend
               /\ UNCHANGED <<sensorCacheMap, lastEmitted, stateSensorMatchs>>
          ELSE LET newState == mapping.valueMapping[m].state
                   previousState == PreviousState(sensorCacheMap, sensorId,
                                                  offset, newState)
               IN /\ stateSensorMatchs' =
                         [stateSensorMatchs EXCEPT ![k].eventClass =
                             <<sub.eventClass[1], newState, previousState>>]
                  /\ sendEventMsg(id, encOk, regOk)
                  /\ sensorCacheMap' =
                         updateSensorCacheMaps(sensorCacheMap, sensorId,
                                               offset, previousState)
                  /\ lastEmitted' =
                         IF Registered(id, "PlatformEventMessage", encOk,
                                       regOk)
                         THEN [lastEmitted EXCEPT ![<<sensorId, offset>>] =
                                  newState]
                         ELSE lastEmitted
       /\ UNCHANGED <<response, tracing, listening, numComponents, started, fudVars,
                      phase, completions, succeeded>>

\* The PropertiesChanged callback of subscription k: hasProp says whether
\* the signal carries the mapped property, value is the property's value.
stateSensorMatch(k, hasProp, value, id, encOk, regOk) ==
    LET sub == stateSensorMatchs[k]
        sensorId == sub.sensorId
        offset == sub.offset
        mapping == DbusMaps[sensorId][offset + 1]
        m == IF hasProp
             THEN FirstMatch(mapping.propertyType, mapping.valueMapping, value)
             ELSE 0
    IN /\ NoDeferred
       /\ IF m = 0
          THEN /\ NoSend
               /\ UNCHANGED <<sensorCacheMap, lastEmitted, stateSensorMatchs>>
          ELSE LET newState == mapping.valueMapping[m].state
                   previousState == PreviousState(sensorCacheMap, sensorId,
                                                  offset, newState)
               IN /\ stateSensorMatchs' =
                         [stateSensorMatchs EXCEPT ![k].eventClass =
                             <<sub.eventClass[1], newState, previousState>>]
                  /\ sendEventMsg(id, encOk, regOk)
                  /\ sensorCacheMap' =
                         updateSensorCacheMaps(sensorCacheMap, sensorId,
                                               offset, previousState)
                  /\ lastEmitted' =
                         IF Registered(id, "PlatformEventMessage", encOk,
                                       regOk)
                         THEN [lastEmitted EXCEPT ![<<sensorId, offset>>] =
                                  newState]
                         ELSE lastEmitted
       /\ UNCHANGED <<response, tracing, listening, numComponents, started, fudVars,
                      phase, completions, succeeded>>

\* ------------------------------------------------------------ behaviours
SensorOffsets ==
    {<<s, o>> : s \in DOMAIN DbusMaps, o \in 0 .. 1}

Init ==
    /\ listening = FALSE
    /\ numComponents \in 1 .. MaxComponents
    /\ started = FALSE
    /\ componentIndex = 0
    /\ componentUpdateStatus = EmptyMap
    /\ pldmRequest = NoTask
    /\ reqFwDataTimer = "null"
    /\ idInUse = {}
    /\ outstanding = {}
    /\ sensorCacheMap = EmptyMap
    /\ stateSensorMatchs = <<>>
    /\ phase = "Idle"
    /\ tracing = FALSE
    /\ sent = <<>>
    /\ completions = [t |-> 0, f |-> 0]
    /\ doubleFree = FALSE
    /\ succeeded = FALSE
    /\ response = NoResponse
    /\ lastEmitted = [so \in SensorOffsets |-> PLDM_SENSOR_UNKNOWN]

\* Offsets and lengths a RequestFirmwareData request may carry.
ReqOffsets == {U32(0), U32(97), <<Half - 1, Half - 32>>}
ReqLengths == {U32(31), U32(32)}

\* The part of a session that is explored: up to MaxCalls completion
\* reports, and not beyond a state in which the allocator and the handler
\* disagree: an id that was not in use has been freed, or a request is
\* registered under an id that has been freed.
Bounded ==
    /\ completions.t + completions.f < MaxCalls
    /\ ~doubleFree
    /\ \A r \in outstanding : r.id \in idInUse

\* Inputs a handler does not read take one value.
SendInputs == {<<id, encOk, regOk>> :
                 id \in NextIds, encOk \in BOOLEAN, regOk \in BOOLEAN}

NoSendInputs == {<<NoId, TRUE, TRUE>>}

InputsOf(req) == IF req = "failure" THEN SendInputs ELSE NoSendInputs

DoStart == Bounded /\ \E i \in SendInputs :
    startFwUpdateFlow(i[1], i[2], i[3])

DoDeferred == Bounded /\ \E i \in SendInputs :
    RunDeferred(i[1], i[2], i[3])

DoResponse == Bounded /\ \E r \in outstanding, resp \in Resps :
    HandleResponse(r, resp)

DoTimer == Bounded /\ \E i \in SendInputs :
    RequestFwDataTimerExpiry(i[1], i[2], i[3])

DoRequestFwData ==
    Bounded /\ \E decOk \in BOOLEAN, offset \in ReqOffsets,
                  length \in ReqLengths, encOk \in BOOLEAN :
        requestFwData(decOk, offset, length, encOk)

DoTransferComplete ==
    Bounded /\ \E req \in DeviceReqs :
        \E i \in InputsOf(req) : transferComplete(req, i[1], i[2], i[3])

DoVerifyComplete ==
    Bounded /\ \E req \in DeviceReqs :
        \E i \in InputsOf(req) : verifyComplete(req, i[1], i[2], i[3])

DoApplyComplete ==
    Bounded /\ \E req \in DeviceReqs \cup ApplySuccessResults :
        \E i \in InputsOf(req) : applyComplete(req, i[1], i[2], i[3])

DoListen == Bounded /\ listenSensorEvent

DoSignal ==
    Bounded /\ \E k \in 1 .. Len(stateSensorMatchs), hasProp \in BOOLEAN,
                  i \in SendInputs :
        \E value \in PropertyValues(
                DbusMaps[stateSensorMatchs[k].sensorId]
                        [stateSensorMatchs[k].offset + 1].propertyType) :
            stateSensorMatch(k, hasProp, value, i[1], i[2], i[3])

NextFud ==
    \/ DoStart
    \/ DoDeferred
    \/ DoResponse
    \/ DoTimer
    \/ DoRequestFwData
    \/ DoTransferComplete
    \/ DoVerifyComplete
    \/ DoApplyComplete

NextSensor ==
    \/ DoListen
    \/ DoSignal
    \/ DoResponse

Spec == Init /\ [][NextFud]_vars

SpecSensor == Init /\ [][NextSensor]_vars

\* ---- The happy path: every send succeeds, every request gets an ok
\* ---- response, and the device, for each component in turn, pulls data and
\* ---- then reports TransferComplete, VerifyComplete and ApplyComplete with
\* ---- success, in time.  The requests of the session are recorded in sent.
InitHappy ==
    /\ listening = FALSE
    /\ numComponents \in 1 .. MaxHappyComponents
    /\ started = FALSE
    /\ componentIndex = 0
    /\ componentUpdateStatus = EmptyMap
    /\ pldmRequest = NoTask
    /\ reqFwDataTimer = "null"
    /\ idInUse = {}
    /\ outstanding = {}
    /\ sensorCacheMap = EmptyMap
    /\ stateSensorMatchs = <<>>
    /\ phase = "Idle"
    /\ tracing = TRUE
    /\ sent = <<>>
    /\ completions = [t |-> 0, f |-> 0]
    /\ doubleFree = FALSE
    /\ succeeded = FALSE
    /\ response = NoResponse
    /\ lastEmitted = [so \in SensorOffsets |-> PLDM_SENSOR_UNKNOWN]

HappyStart == \E id \in NextIds : startFwUpdateFlow(id, TRUE, TRUE)

HappyDeferred == \E id \in NextIds : RunDeferred(id, TRUE, TRUE)

HappyResponse == \E r \in outstanding : HandleResponse(r, "ok")

HappyRequestFwData ==
    /\ phase = "AwaitingData"
    /\ \E offset \in ReqOffsets, length \in ReqLengths :
          requestFwData(TRUE, offset, length, TRUE)

HappyTransferComplete ==
    /\ phase = "AwaitingData"
    /\ reqFwDataTimer = "armed"
    /\ transferComplete("success", NoId, TRUE, TRUE)

HappyVerifyComplete ==
    /\ phase = "VerifyComplete"
    /\ verifyComplete("success", NoId, TRUE, TRUE)

HappyApplyComplete ==
    /\ phase = "ApplyComplete"
    /\ \E req \in ApplySuccessResults : applyComplete(req, NoId, TRUE, TRUE)

NextHappy ==
    \/ HappyStart
    \/ HappyDeferred
    \/ HappyResponse
    \/ HappyRequestFwData
    \/ HappyTransferComplete
    \/ HappyVerifyComplete
    \/ HappyApplyComplete

SpecHappy == InitHappy /\ [][NextHappy]_vars

\* ---- The happy path with RequestFirmwareData requests of any kind: not
\* ---- decodable, with offsets and lengths on both sides of every limit of
\* ---- requestFwData, and with offsets near the top of the uint32_t range.
DataOffsets ==
    {U32(0), U32(32), U32(64), U32(65), U32(96), U32(97),
     <<Half - 1, Half - 32>>, <<Half - 1, Half - 16>>}

DataLengths ==
    {U32(PLDM_FWUP_BASELINE_TRANSFER_SIZE - 1),
     U32(PLDM_FWUP_BASELINE_TRANSFER_SIZE), U32(48),
     U32(MaxTransferSize), U32(MaxTransferSize + 1)}

DataRequestFwData ==
    /\ phase = "AwaitingData"
    /\ \E decOk \in BOOLEAN, offset \in DataOffsets, length \in DataLengths,
          encOk \in BOOLEAN :
          requestFwData(decOk, offset, length, encOk)

NextData ==
    \/ HappyStart
    \/ HappyDeferred
    \/ HappyResponse
    \/ DataRequestFwData
    \/ HappyTransferComplete
    \/ HappyVerifyComplete
    \/ HappyApplyComplete

SpecData == InitHappy /\ [][NextData]_vars

\* ---- The device keeps to the protocol: it pulls data only in AwaitingData
\* ---- and reports each completion in its phase, with any result; every
\* ---- send succeeds; responses are arbitrary and the timer may expire.
InitOrderly ==
    /\ listening = FALSE
    /\ numComponents \in 1 .. MaxOrderlyComponents
    /\ started = FALSE
    /\ componentIndex = 0
    /\ componentUpdateStatus = EmptyMap
    /\ pldmRequest = NoTask
    /\ reqFwDataTimer = "null"
    /\ idInUse = {}
    /\ outstanding = {}
    /\ sensorCacheMap = EmptyMap
    /\ stateSensorMatchs = <<>>
    /\ phase = "Idle"
    /\ tracing = TRUE
    /\ sent = <<>>
    /\ completions = [t |-> 0, f |-> 0]
    /\ doubleFree = FALSE
    /\ succeeded = FALSE
    /\ response = NoResponse
    /\ lastEmitted = [so \in SensorOffsets |-> PLDM_SENSOR_UNKNOWN]

OrderlyStart == \E id \in NextIds : startFwUpdateFlow(id, TRUE, TRUE)

OrderlyDeferred == \E id \in NextIds : RunDeferred(id, TRUE, TRUE)

OrderlyResponse == \E r \in outstanding, resp \in Resps :
    HandleResponse(r, resp)

OrderlyTimer == \E id \in NextIds :
    RequestFwDataTimerExpiry(id, TRUE, TRUE)

OrderlyRequestFwData ==
    /\ phase = "AwaitingData"
    /\ \E offset \in ReqOffsets, length \in ReqLengths :
          requestFwData(TRUE, offset, length, TRUE)

OrderlyTransferComplete ==
    /\ phase = "AwaitingData"
    /\ reqFwDataTimer = "armed"
    /\ \E req \in {"success", "failure"}, id \in NextIds :
          transferComplete(req, id, TRUE, TRUE)

OrderlyVerifyComplete ==
    /\ phase = "VerifyComplete"
    /\ \E req \in {"success", "failure"}, id \in NextIds :
          verifyComplete(req, id, TRUE, TRUE)

OrderlyApplyComplete ==
    /\ phase = "ApplyComplete"
    /\ \E req \in {"success", "failure"}, id \in NextIds :
          applyComplete(req, id, TRUE, TRUE)

NextOrderly ==
    \/ OrderlyStart
    \/ OrderlyDeferred
    \/ OrderlyResponse
    \/ OrderlyTimer
    \/ OrderlyRequestFwData
    \/ OrderlyTransferComplete
    \/ OrderlyVerifyComplete
    \/ OrderlyApplyComplete

SpecOrderly == InitOrderly /\ [][NextOrderly]_vars

\* ---- As SpecOrderly, but once the first UpdateComponent request has
\* ---- been sent the device may send ApplyComplete at any time and any
\* ---- number of times, with any result.  The session is followed for its
\* ---- first MaxRequests requests and MaxRepeatCalls completion reports.
MaxRequests == 8
MaxRepeatCalls == 3

RepeatBounded ==
    /\ Len(sent) < MaxRequests
    /\ completions.t + completions.f < MaxRepeatCalls

RepeatStart == RepeatBounded /\ OrderlyStart

RepeatDeferred == RepeatBounded /\ OrderlyDeferred

RepeatResponse == RepeatBounded /\ OrderlyResponse

RepeatTimer == RepeatBounded /\ OrderlyTimer

RepeatRequestFwData == RepeatBounded /\ OrderlyRequestFwData

RepeatTransferComplete == RepeatBounded /\ OrderlyTransferComplete

RepeatVerifyComplete == RepeatBounded /\ OrderlyVerifyComplete

RepeatApplyComplete ==
    /\ RepeatBounded
    /\ \E k \in 1 .. Len(sent) : sent[k].cmd = "UpdateComponent"
    /\ \E req \in {"success", "failure"}, id \in NextIds :
          applyComplete(req, id, TRUE, TRUE)

NextRepeat ==
    \/ RepeatStart
    \/ RepeatDeferred
    \/ RepeatResponse
    \/ RepeatTimer
    \/ RepeatRequestFwData
    \/ RepeatTransferComplete
    \/ RepeatVerifyComplete
    \/ RepeatApplyComplete

SpecRepeat == InitOrderly /\ [][NextRepeat]_vars

\* ---- Progress of a session: every send succeeds, every request gets a
\* ---- response that can be decoded (with any completion code), and the
\* ---- device, after an ok UpdateComponent response, sends its first data
\* ---- request and then either reports TransferComplete, VerifyComplete
\* ---- and ApplyComplete, with any result, or falls silent, so that the
\* ---- timer expires.  The event loop dispatches every pending source:
\* ---- deferred tasks, responses and the armed timer are weakly fair, and
\* ---- so are the device's first data request and the reports that follow
\* ---- a TransferComplete; TransferComplete itself is not.
DecodableResps == {"ok", "err"}

LiveStart == OrderlyStart

LiveDeferred == OrderlyDeferred

LiveResponse == \E r \in outstanding, resp \in DecodableResps :
    HandleResponse(r, resp)

LiveTimer == OrderlyTimer

LiveRequestFwData ==
    /\ phase = "AwaitingData"
    /\ reqFwDataTimer = "null"
    /\ requestFwData(TRUE, U32(0), U32(PLDM_FWUP_BASELINE_TRANSFER_SIZE),
                     TRUE)

LiveTransferComplete == OrderlyTransferComplete

LiveVerifyComplete == OrderlyVerifyComplete

LiveApplyComplete == OrderlyApplyComplete

NextLive ==
    \/ LiveStart
    \/ LiveDeferred
    \/ LiveResponse
    \/ LiveTimer
    \/ LiveRequestFwData
    \/ LiveTransferComplete
    \/ LiveVerifyComplete
    \/ LiveApplyComplete

SpecLive ==
    /\ InitOrderly
    /\ [][NextLive]_vars
    /\ WF_vars(LiveStart)
    /\ WF_vars(LiveDeferred)
    /\ WF_vars(LiveResponse)
    /\ WF_vars(LiveTimer)
    /\ WF_vars(LiveRequestFwData)
    /\ WF_vars(LiveVerifyComplete)
    /\ WF_vars(LiveApplyComplete)

\* ---- Every sensor event is emitted: an instance id is available and the
\* ---- codec and the handler accept the request.
EmitSignal ==
    \E k \in 1 .. Len(stateSensorMatchs), hasProp \in BOOLEAN,
       id \in NextIds \ {NoId} :
        \E value \in PropertyValues(
                DbusMaps[stateSensorMatchs[k].sensorId]
                        [stateSensorMatchs[k].offset + 1].propertyType) :
            stateSensorMatch(k, hasProp, value, id, TRUE, TRUE)

NextEmit ==
    \/ DoListen
    \/ EmitSignal
    \/ DoResponse

SpecEmit == Init /\ [][NextEmit]_vars

\* ---- The FUD-SM and the sensor bridge on one endpoint, sharing the
\* ---- allocator and the handler: the session is started, its deferred
\* ---- sends run and responses arrive while sensor signals are handled.
\* ---- Nothing is explored after a free of an id that was not in use.
\* ---- A signal carries one mapped value of its property.
SharedValues(propertyType) ==
    IF propertyType = "string" THEN {<<"o", "n">>} ELSE {0}

SharedStart == ~doubleFree /\ \E i \in SendInputs :
    startFwUpdateFlow(i[1], i[2], i[3])

SharedDeferred == ~doubleFree /\ \E i \in SendInputs :
    RunDeferred(i[1], i[2], i[3])

SharedResponse == ~doubleFree /\ \E r \in outstanding, resp \in Resps :
    HandleResponse(r, resp)

SharedListen == ~doubleFree /\ listenSensorEvent

SharedSignal ==
    ~doubleFree /\ \E k \in 1 .. Len(stateSensorMatchs), i \in SendInputs :
        \E value \in SharedValues(
                DbusMaps[stateSensorMatchs[k].sensorId]
                        [stateSensorMatchs[k].offset + 1].propertyType) :
            stateSensorMatch(k, TRUE, value, i[1], i[2], i[3])

NextShared ==
    \/ SharedStart
    \/ SharedDeferred
    \/ SharedResponse
    \/ SharedListen
    \/ SharedSignal

SpecShared == Init /\ [][NextShared]_vars

\* ================================================================ claims
FudOutstanding == {r \in outstanding : r.cmd # "PlatformEventMessage"}

HoldersOf(id) == {r \in outstanding : r.id = id}

\* C1: every instance id obtained by next(eid) is released exactly once:
\* free is never called on an id that is not in use, an id in use is held
\* by exactly one registered request (whose response releases it), and an
\* id that has been released is held by none.
C1_ReleasedExactlyOnce ==
    /\ ~doubleFree
    /\ \A id \in Ids :
          Cardinality(HoldersOf(id)) = IF id \in idInUse THEN 1 ELSE 0

\* A step of a send operation in which the codec rejects the request.
EncodeRejected ==
    \E id \in NextIds \ {NoId}, regOk \in BOOLEAN :
        \/ startFwUpdateFlow(id, FALSE, regOk)
        \/ RunDeferred(id, FALSE, regOk)
        \/ RequestFwDataTimerExpiry(id, FALSE, regOk)
        \/ transferComplete("failure", id, FALSE, regOk)
        \/ verifyComplete("failure", id, FALSE, regOk)
        \/ applyComplete("failure", id, FALSE, regOk)

\* C2: when the codec rejects the request of a send operation, the id goes
\* back to the allocator and the operation is abandoned: no request is
\* registered with the id, and neither componentIndex nor a deferred task
\* advances.
C2_EncodeFailureAbandons ==
    [][EncodeRejected =>
          /\ idInUse' = idInUse
          /\ outstanding' = outstanding
          /\ componentIndex' = componentIndex
          /\ pldmRequest' = NoTask]_vars

\* C3: at most one request registered by the FUD-SM awaits its response.
C3_OneOutstandingRequest == Cardinality(FudOutstanding) <= 1

\* The ok response to CancelUpdateComponent is processed while
\* componentIndex is the last position.
CancelOkOnLast ==
    /\ componentIndex = numComponents - 1
    /\ \E r \in outstanding :
          r.cmd = "CancelUpdateComponent" /\ HandleResponse(r, "ok")

\* The requests of a session with n components on the happy path.
ExpectedRequests(n) ==
    <<[cmd |-> "RequestUpdate", off |-> 0]>>
    \o [i \in 1 .. n |-> [cmd |-> "PassComponentTable", off |-> i - 1]]
    \o [i \in 1 .. n |-> [cmd |-> "UpdateComponent", off |-> i - 1]]
    \o <<[cmd |-> "ActivateFirmware", off |-> 0]>>

SentRequests ==
    [i \in 1 .. Len(sent) |-> [cmd |-> sent[i].cmd, off |-> sent[i].off]]

IsPrefix(a, b) == Len(a) <= Len(b) /\ a = SubSeq(b, 1, Len(a))

\* C4: on the happy path the requests sent are, in order, RequestUpdate,
\* PassComponentTable for positions 0..N-1, UpdateComponent for positions
\* 0..N-1 and one ActivateFirmware; failure is never reported, success is
\* reported at most once and only after the whole sequence has been sent,
\* and the session cannot stop before success has been reported.
C4_HappyPathSequence ==
    /\ IsPrefix(SentRequests, ExpectedRequests(numComponents))
    /\ completions.f = 0
    /\ completions.t <= 1
    /\ completions.t = 1 =>
          /\ SentRequests = ExpectedRequests(numComponents)
          /\ outstanding = {}
          /\ NoDeferred
    /\ ~ENABLED NextHappy => completions.t = 1

\* A session with two components has ended with success reported.
C4_Witness ==
    /\ numComponents = 2
    /\ completions = [t |-> 1, f |-> 0]
    /\ Len(sent) = 6
    /\ phase = "Done"

\* C5: on the ok response to the cancel of the last component,
\* ActivateFirmware is scheduled if some component of the session reached
\* ApplyComplete success, and failure is reported only if none did.
C5_ActivateIfAnySucceeded ==
    [][CancelOkOnLast =>
          /\ succeeded =>
                pldmRequest' = Defer("sendActivateFirmwareRequest", 0)
          /\ completions'.f > completions.f => ~succeeded]_vars

\* C6: updateDeviceCompletion(eid, false) is called at most once in a
\* session.
C6_SingleFailureReport == completions.f <= 1

\* C7: the request-firmware-data timer is armed only in AwaitingData.
C7_TimerOnlyInAwaitingData ==
    reqFwDataTimer = "armed" => phase = "AwaitingData"

\* C8: componentIndex, the position bound in a deferred send and every
\* key of componentUpdateStatus are valid positions of
\* applicableComponents.
C8_ComponentIndexInRange ==
    /\ componentIndex \in 0 .. (numComponents - 1)
    /\ pldmRequest.off \in 0 .. (numComponents - 1)
    /\ DOMAIN componentUpdateStatus \subseteq 0 .. (numComponents - 1)

\* The index sits at the last of several positions after cancel responses
\* and failure reports have moved it there.
C8_Witness ==
    /\ numComponents >= 2
    /\ componentIndex = numComponents - 1
    /\ completions.f >= 1
    /\ componentUpdateStatus = (0 :> FALSE @@ 1 :> FALSE)
    /\ phase = "Cancelling"

\* A signal whose matched value is not emitted as an event: no instance id
\* is available, the codec rejects the request or the handler does.
SignalNotEmitted ==
    \E k \in 1 .. Len(stateSensorMatchs), i \in SendInputs :
        \E value \in PropertyValues(
                DbusMaps[stateSensorMatchs[k].sensorId]
                        [stateSensorMatchs[k].offset + 1].propertyType) :
            /\ ~Registered(i[1], "PlatformEventMessage", i[2], i[3])
            /\ stateSensorMatch(k, TRUE, value, i[1], i[2], i[3])

\* C9: a signal whose event is not emitted (no instance id, encode failure
\* or registerRequest error) leaves the sensor state cache unchanged.
C9_CacheOnlyAfterEmission ==
    [][SignalNotEmitted => sensorCacheMap' = sensorCacheMap]_vars

\* The state code the value of a signal of subscription k is mapped to.
MatchedState(k, value) ==
    LET sub == stateSensorMatchs[k]
        mapping == DbusMaps[sub.sensorId][sub.offset + 1]
    IN mapping.valueMapping[
           FirstMatch(mapping.propertyType, mapping.valueMapping, value)].state

\* C10: every emitted sensor event carries the offset in event_class[0], the
\* matched state in event_class[1] and, in event_class[2], the state that
\* the previous emission for the same sensor and offset carried as new, or
\* the matched state when there was no earlier emission.
C10_EventClassOfEmission ==
    [][\A k \in 1 .. Len(stateSensorMatchs), id \in NextIds \ {NoId} :
         \A value \in PropertyValues(
                 DbusMaps[stateSensorMatchs[k].sensorId]
                         [stateSensorMatchs[k].offset + 1].propertyType) :
            (/\ FirstMatch(DbusMaps[stateSensorMatchs[k].sensorId]
                                   [stateSensorMatchs[k].offset + 1].propertyType,
                           DbusMaps[stateSensorMatchs[k].sensorId]
                                   [stateSensorMatchs[k].offset + 1].valueMapping,
                           value) # 0
             /\ stateSensorMatch(k, TRUE, value, id, TRUE, TRUE)) =>
                LET sub == stateSensorMatchs[k]
                    last == lastEmitted[<<sub.sensorId, sub.offset>>]
                IN stateSensorMatchs'[k].eventClass =
                       <<sub.offset, MatchedState(k, value),
                         IF last = PLDM_SENSOR_UNKNOWN
                         THEN MatchedState(k, value) ELSE last>>]_vars

\* The sum of two uint32_t values as a number, not reduced modulo 2^32:
\* <<carry, high half, low half>>.
WideAdd(a, b) ==
    LET lo == a[2] + b[2]
        hi == a[1] + b[1] + (lo \div Half)
    IN <<hi \div Half, hi % Half, lo % Half>>

GtWide(x, y) ==
    \/ x[1] > y[1]
    \/ x[1] = y[1] /\ x[2] > y[2]
    \/ x[1] = y[1] /\ x[2] = y[2] /\ x[3] > y[3]

\* offset + length > compSize + 32, as numbers
SumExceeds(offset, length, compSize) ==
    GtWide(WideAdd(offset, length),
           WideAdd(compSize, U32(PLDM_FWUP_BASELINE_TRANSFER_SIZE)))

LengthRejected(length) ==
    \/ Gt32(U32(PLDM_FWUP_BASELINE_TRANSFER_SIZE), length)
    \/ Gt32(length, U32(MaxTransferSize))

Decoded == response.cc \notin {"none", "ERROR_INVALID_DATA"}

\* C11: the completion code of a decoded RequestFirmwareData request is
\* INVALID_TRANSFER_LENGTH if length < 32 or length > maxTransferSize,
\* otherwise DATA_OUT_OF_RANGE if offset + length > compSize + 32, otherwise
\* SUCCESS.
C11_CompletionCode ==
    Decoded =>
        response.cc =
            IF LengthRejected(response.length)
            THEN "INVALID_TRANSFER_LENGTH"
            ELSE IF SumExceeds(response.offset, response.length,
                               response.compSize)
            THEN "DATA_OUT_OF_RANGE"
            ELSE "SUCCESS"

\* The same for the requests whose offset + length fits in 32 bits.
C11_CompletionCodeNoWrap ==
    WideAdd(response.offset, response.length)[1] = 0 => C11_CompletionCode

\* C12: a request of valid length whose offset + length, as a number,
\* exceeds compSize + 32 is answered DATA_OUT_OF_RANGE and nothing is read
\* from the package, also when the 32-bit sum wraps.
C12_OutOfRangeRejected ==
    (/\ Decoded
     /\ ~LengthRejected(response.length)
     /\ SumExceeds(response.offset, response.length, response.compSize)) =>
        /\ response.cc = "DATA_OUT_OF_RANGE"
        /\ response.read = U32(0)

Min32(a, b) == IF Gt32(a, b) THEN b ELSE a

\* C13: an accepted request is answered with exactly length payload bytes,
\* of which the first min(length, compSize - offset) are read from the
\* package; that number is not negative and not above length.
C13_PayloadAndPadding ==
    response.cc = "SUCCESS" =>
        /\ response.payload = response.length
        /\ ~Gt32(response.offset, response.compSize)
        /\ response.read =
               Min32(response.length,
                     Sub32(response.compSize, response.offset))
        /\ ~Gt32(response.read, response.length)

\* The same for the requests whose offset + length fits in 32 bits.
C13_PayloadAndPaddingNoWrap ==
    WideAdd(response.offset, response.length)[1] = 0 =>
        C13_PayloadAndPadding

PassCompTableSent ==
    {k \in 1 .. Len(sent) : sent[k].cmd = "PassComponentTable"}

\* C14: with ok responses, PassComponentTable is sent for the positions
\* 0, 1, ..., N-1 in that order, one per ok response; the request for
\* position i carries START_AND_END if N = 1, else START if i = 0, else END
\* if i = N-1, else MIDDLE; the request after the last one is
\* UpdateComponent for position 0.
C14_PassCompTableOrderAndFlags ==
    /\ \A k \in 1 .. Len(sent) :
          /\ k \in PassCompTableSent <=> k \in 2 .. (numComponents + 1)
          /\ k \in PassCompTableSent =>
                /\ sent[k].off = k - 2
                /\ sent[k].flag =
                      IF numComponents = 1 THEN PLDM_START_AND_END
                      ELSE IF k - 2 = 0 THEN PLDM_START
                      ELSE IF k - 2 = numComponents - 1 THEN PLDM_END
                      ELSE PLDM_MIDDLE
          /\ k = numComponents + 2 =>
                /\ sent[k].cmd = "UpdateComponent"
                /\ sent[k].off = 0
    /\ phase = "PassCompTable" =>
          Cardinality(PassCompTableSent) =
              CASE pldmRequest.task = "sendPassCompTableRequest"
                     -> componentIndex
                [] pldmRequest.task = "sendUpdateComponentRequest"
                     -> numComponents
                [] OTHER -> componentIndex + 1

\* Three components: START, MIDDLE and END have been sent and
\* UpdateComponent for position 0 has followed.
C14_Witness ==
    /\ numComponents = 3
    /\ Len(sent) = 5
    /\ sent[2].flag = PLDM_START
    /\ sent[3].flag = PLDM_MIDDLE
    /\ sent[4].flag = PLDM_END
    /\ sent[5].cmd = "UpdateComponent"

\* A response to UpdateComponent that is missing or carries a non-zero
\* completion code.
UpdateComponentFailed ==
    \E r \in outstanding, resp \in {"none", "err"} :
        r.cmd = "UpdateComponent" /\ HandleResponse(r, resp)

\* C15: a missing UpdateComponent response, or one with a non-zero
\* completion code, marks the device failed: updateDeviceCompletion(eid,
\* false) is called and the session does not enter AwaitingData.
C15_UpdateComponentFailure ==
    [][UpdateComponentFailed =>
          /\ completions'.f = completions.f + 1
          /\ phase' # "AwaitingData"]_vars

\* A CancelUpdateComponent response with a non-zero completion code.
CancelErr ==
    \E r \in outstanding :
        r.cmd = "CancelUpdateComponent" /\ HandleResponse(r, "err")

\* C16: after a CancelUpdateComponent response with a non-zero completion
\* code the state machine continues as for an ok response: before the last
\* component it schedules UpdateComponent for the next one, on the last it
\* schedules ActivateFirmware or reports failure.
C16_CancelErrorContinues ==
    [][CancelErr =>
          IF componentIndex < numComponents - 1
          THEN pldmRequest' =
                   Defer("sendUpdateComponentRequest", componentIndex + 1)
          ELSE \/ pldmRequest' = Defer("sendActivateFirmwareRequest", 0)
               \/ completions'.f = completions.f + 1]_vars

TimerExpired ==
    \E id \in NextIds : RequestFwDataTimerExpiry(id, TRUE, TRUE)

ComponentFailureReported ==
    \E id \in NextIds :
        \/ transferComplete("failure", id, TRUE, TRUE)
        \/ verifyComplete("failure", id, TRUE, TRUE)
        \/ applyComplete("failure", id, TRUE, TRUE)

\* The step marks the current component failed and sends
\* CancelUpdateComponent as the next request.
CancelPathEntered ==
    /\ componentIndex \in DOMAIN componentUpdateStatus'
    /\ componentUpdateStatus'[componentIndex] = FALSE
    /\ Len(sent') = Len(sent) + 1
    /\ sent'[Len(sent')].cmd = "CancelUpdateComponent"
    /\ \E r \in outstanding' \ outstanding : r.cmd = "CancelUpdateComponent"

NoActivateAfterCancel(requests) ==
    \A j \in 1 .. Len(requests), k \in 1 .. Len(requests) :
        (j < k /\ requests[j].cmd = "CancelUpdateComponent") =>
            requests[k].cmd # "ActivateFirmware"

\* C17: the expiry of the data-request timer and every TransferComplete,
\* VerifyComplete or ApplyComplete with a failure result mark the current
\* component failed and send CancelUpdateComponent next; with one
\* component, the ok response to that cancel reports failure and
\* ActivateFirmware is not sent afterwards.
C17_FailureEntersCancelPath ==
    [][/\ TimerExpired => CancelPathEntered
       /\ ComponentFailureReported => CancelPathEntered
       /\ (numComponents = 1 /\ CancelOkOnLast) =>
             /\ completions'.f = completions.f + 1
             /\ pldmRequest' = NoTask
       /\ numComponents = 1 => NoActivateAfterCancel(sent')]_vars

\* One component: the timer expired, the cancel request was answered ok and
\* failure has been reported.
C17_Witness ==
    /\ numComponents = 1
    /\ reqFwDataTimer = "expired"
    /\ componentUpdateStatus = (0 :> FALSE)
    /\ sent # <<>>
    /\ sent[Len(sent)].cmd = "CancelUpdateComponent"
    /\ outstanding = {}
    /\ phase = "Done"

\* A response callback of the FUD-SM runs.
FudCallback(cmd, resp) ==
    \E r \in outstanding : r.cmd = cmd /\ HandleResponse(r, resp)

C19_OutstandingIdsDistinct ==
    \A r1 \in outstanding, r2 \in outstanding : r1.id = r2.id => r1 = r2

\* value is one of the pieces of src between occurrences of "||", with the
\* blanks at its ends removed.
IsToken(value, src) ==
    /\ value # <<>>
    /\ \E a \in 1 .. (Len(src) + 1), b \in 0 .. Len(src) :
          /\ a <= b + 1
          /\ a = 1 \/ (a >= 3 /\ DelimAt(src, a - 2))
          /\ b = Len(src) \/ DelimAt(src, b + 1)
          /\ \A j \in a .. (b - 1) : ~DelimAt(src, j)
          /\ Strip(SubSeq(src, a, b)) = value

\* The entries of the value mapping of subscription k that match value.
MatchingEntries(k, value) ==
    LET sub == stateSensorMatchs[k]
        mapping == DbusMaps[sub.sensorId][sub.offset + 1]
    IN {i \in 1 .. Len(mapping.valueMapping) :
          IF mapping.propertyType = "string"
          THEN IsToken(value, mapping.valueMapping[i].value)
          ELSE mapping.valueMapping[i].value = value}

\* C20: on a signal that carries the mapped property the first entry of
\* the value mapping that matches wins: one event is emitted and its
\* event_class[1] is the state of that entry; when no entry matches, no
\* event is emitted and the cache is unchanged.  A string matches an entry
\* iff it equals one of the stripped pieces of the candidate split on "||".
C20_FirstMatchWins ==
    [][\A k \in 1 .. Len(stateSensorMatchs), id \in NextIds \ {NoId} :
         \A value \in PropertyValues(
                 DbusMaps[stateSensorMatchs[k].sensorId]
                         [stateSensorMatchs[k].offset + 1].propertyType) :
            stateSensorMatch(k, TRUE, value, id, TRUE, TRUE) =>
                LET matching == MatchingEntries(k, value)
                    sub == stateSensorMatchs[k]
                    mapping == DbusMaps[sub.sensorId][sub.offset + 1]
                IN IF matching = {}
                   THEN /\ outstanding' = outstanding
                        /\ sensorCacheMap' = sensorCacheMap
                        /\ stateSensorMatchs' = stateSensorMatchs
                   ELSE LET first == CHOOSE i \in matching :
                                        \A j \in matching : i <= j
                        IN /\ Cardinality(outstanding' \ outstanding) = 1
                           /\ \A r \in outstanding' \ outstanding :
                                 r.cmd = "PlatformEventMessage"
                           /\ stateSensorMatchs'[k].eventClass[2] =
                                 mapping.valueMapping[first].state]_vars

\* The string sensor has emitted state 3 and then state 5, and the event
\* of the second emission awaits its response.
C20_Witness ==
    /\ listening
    /\ lastEmitted[<<1, 0>>] = 5
    /\ 1 \in DOMAIN sensorCacheMap
    /\ sensorCacheMap[1][0] = 3
    /\ \E r \in outstanding : r.cmd = "PlatformEventMessage"

PdrSensors == {PdrSensorIds[i] : i \in 1 .. Len(PdrSensorIds)}

SubscriptionsOf(sensorId, offset) ==
    {k \in 1 .. Len(stateSensorMatchs) :
        /\ stateSensorMatchs[k].sensorId = sensorId
        /\ stateSensorMatchs[k].offset = offset}

\* C21: a state-sensor PDR whose sensor id has no entry in dbusMaps gets no
\* subscription and nothing is ever recorded or emitted for it, and the
\* records after it are still handled; a sensor id with an entry gets
\* exactly one subscription per composite-sensor offset.  Before
\* listenSensorEvent has run there is no subscription and no event.
C21_SubscriptionsPerMappedSensor ==
    /\ \A k \in 1 .. Len(stateSensorMatchs) :
          /\ stateSensorMatchs[k].sensorId \in DOMAIN DbusMaps
          /\ stateSensorMatchs[k].sensorId \in PdrSensors
          /\ stateSensorMatchs[k].offset \in
                 0 .. (Len(DbusMaps[stateSensorMatchs[k].sensorId]) - 1)
    /\ DOMAIN sensorCacheMap \subseteq DOMAIN DbusMaps
    /\ ~listening =>
          /\ stateSensorMatchs = <<>>
          /\ \A r \in outstanding : r.cmd # "PlatformEventMessage"
    /\ listening =>
          \A s \in PdrSensors \cap DOMAIN DbusMaps :
              \A o \in 0 .. (Len(DbusMaps[s]) - 1) :
                  Cardinality(SubscriptionsOf(s, o)) = 1

\* The repository holds a record of an unmapped sensor before the record of
\* a mapped one; the mapped one is subscribed and has emitted an event.
C21_Witness ==
    /\ listening
    /\ \E i \in 1 .. Len(PdrSensorIds), j \in 1 .. Len(PdrSensorIds) :
          /\ i < j
          /\ PdrSensorIds[i] \notin DOMAIN DbusMaps
          /\ PdrSensorIds[j] \in DOMAIN DbusMaps
    /\ Len(stateSensorMatchs) = 2
    /\ \E r \in outstanding : r.cmd = "PlatformEventMessage"

\* C22: when the response to RequestUpdate, PassComponentTable,
\* UpdateComponent, ActivateFirmware or CancelUpdateComponent cannot be
\* decoded, the callback changes nothing: componentIndex,
\* componentUpdateStatus and the timer keep their values, no deferred task
\* is scheduled, no request is sent and updateDeviceCompletion is not
\* called; only the answered request leaves the handler.
C22_DecodeFailureChangesNothing ==
    [][\A r \in FudOutstanding :
          HandleResponse(r, "undecodable") =>
              /\ componentIndex' = componentIndex
              /\ componentUpdateStatus' = componentUpdateStatus
              /\ reqFwDataTimer' = reqFwDataTimer
              /\ pldmRequest' = NoTask
              /\ sent' = sent
              /\ outstanding' = outstanding \ {r}
              /\ completions' = completions]_vars

\* The PassComponentTable response for the second of two components could
\* not be decoded: the session rests in that phase with nothing pending.
C22_Witness ==
    /\ numComponents = 2
    /\ phase = "PassCompTable"
    /\ componentIndex = 1
    /\ Len(sent) = 3
    /\ outstanding = {}
    /\ NoDeferred
    /\ completions = [t |-> 0, f |-> 0]

\* The send gets no instance id, or registerRequest returns an error.
SendFailed(id, cmd, regOk) ==
    id = NoId \/ ~RegisterOk(Pool, id, cmd, regOk)

DeferredCmd ==
    CASE pldmRequest.task = "sendPassCompTableRequest" -> "PassComponentTable"
      [] pldmRequest.task = "sendUpdateComponentRequest" -> "UpdateComponent"
      [] pldmRequest.task = "sendActivateFirmwareRequest"
           -> "ActivateFirmware"

\* Nothing is left of the attempt.
SendAbandoned ==
    /\ outstanding' = outstanding
    /\ sent' = sent
    /\ pldmRequest' = NoTask
    /\ componentIndex' = componentIndex

RejectedCodes ==
    {"ERROR_INVALID_DATA", "INVALID_TRANSFER_LENGTH", "DATA_OUT_OF_RANGE"}

\* The step is requestFwData answering the request that the step records:
\* response' holds the offset and the length of a decoded request.
RequestAnswered(encOk) ==
    requestFwData(response'.cc # "ERROR_INVALID_DATA", response'.offset,
                  response'.length, encOk)

\* C24: a RequestFirmwareData request that is rejected (it cannot be
\* decoded, or it is answered INVALID_TRANSFER_LENGTH or DATA_OUT_OF_RANGE)
\* leaves the timer as it is, neither created nor restarted, and changes
\* neither componentIndex nor componentUpdateStatus nor the deferred task;
\* a request that is answered SUCCESS, the response encoded, leaves the
\* timer armed, whether it was absent or already running, and changes
\* nothing else; the timer gets armed by no other step.
C24_TimerOnlyOnAcceptedRequest ==
    [][/\ \A encOk \in BOOLEAN :
             RequestAnswered(encOk) =>
                 /\ response'.cc \in RejectedCodes \cup {"SUCCESS"}
                 /\ response'.cc \in RejectedCodes =>
                        reqFwDataTimer' = reqFwDataTimer
                 /\ (response'.cc = "SUCCESS" /\ encOk) =>
                        reqFwDataTimer' = "armed"
                 /\ componentIndex' = componentIndex
                 /\ componentUpdateStatus' = componentUpdateStatus
                 /\ pldmRequest' = pldmRequest
                 /\ outstanding' = outstanding
                 /\ completions' = completions
       /\ (reqFwDataTimer' = "armed" /\ reqFwDataTimer # "armed") =>
             response'.cc = "SUCCESS"]_vars

\* While the second component is transferred, an accepted request has
\* armed the timer and a request beyond the image has then been rejected:
\* the timer is still armed.
C24_Witness ==
    /\ componentIndex = 1
    /\ phase = "AwaitingData"
    /\ response.cc = "DATA_OUT_OF_RANGE"
    /\ reqFwDataTimer = "armed"

\* The callback of r ends the session: it schedules nothing, sends nothing
\* and leaves componentIndex alone.
SessionEnds(r) ==
    /\ pldmRequest' = NoTask
    /\ sent' = sent
    /\ outstanding' = outstanding \ {r}
    /\ componentIndex' = componentIndex

\* C25: a missing response to RequestUpdate, PassComponentTable or
\* ActivateFirmware, or one with a non-zero completion code, makes the
\* callback call updateDeviceCompletion(eid, false) exactly once, schedule
\* no deferred task and send no request; an ok response to ActivateFirmware
\* calls updateDeviceCompletion(eid, true) exactly once.
C25_ResponseFailureReportedOnce ==
    [][\A r \in FudOutstanding :
          /\ r.cmd \in {"RequestUpdate", "PassComponentTable",
                        "ActivateFirmware"} =>
                \A resp \in {"none", "err"} :
                    HandleResponse(r, resp) =>
                        /\ completions' =
                               [t |-> completions.t, f |-> completions.f + 1]
                        /\ SessionEnds(r)
          /\ (r.cmd = "ActivateFirmware" /\ HandleResponse(r, "ok")) =>
                /\ completions' =
                       [t |-> completions.t + 1, f |-> completions.f]
                /\ SessionEnds(r)]_vars

\* The single component was applied, ActivateFirmware was sent and its
\* response was missing or carried an error: failure has been reported
\* once and success not at all.
C25_Witness ==
    /\ numComponents = 1
    /\ succeeded
    /\ sent # <<>>
    /\ sent[Len(sent)].cmd = "ActivateFirmware"
    /\ outstanding = {}
    /\ phase = "Done"
    /\ completions = [t |-> 0, f |-> 1]

\* C26: a PropertiesChanged signal whose property map does not contain the
\* mapped propertyName is ignored: no sensor event is emitted, no instance
\* id is allocated or freed, and the sensor cache and the event data of the
\* subscription are unchanged.
C26_SignalWithoutPropertyIgnored ==
    [][\A k \in 1 .. Len(stateSensorMatchs), i \in SendInputs :
         \A value \in PropertyValues(
                 DbusMaps[stateSensorMatchs[k].sensorId]
                         [stateSensorMatchs[k].offset + 1].propertyType) :
            stateSensorMatch(k, FALSE, value, i[1], i[2], i[3]) =>
                /\ outstanding' = outstanding
                /\ idInUse' = idInUse
                /\ sensorCacheMap' = sensorCacheMap
                /\ stateSensorMatchs' = stateSensorMatchs
                /\ lastEmitted' = lastEmitted]_vars

\* The subscriptions exist, the cache holds a state and an event awaits
\* its response: a signal without the mapped property arriving now (it is
\* enabled in every such state) leaves all of this as it is.
C26_Witness ==
    /\ listening
    /\ Len(stateSensorMatchs) = 2
    /\ 1 \in DOMAIN sensorCacheMap
    /\ sensorCacheMap[1][1] = 2
    /\ Cardinality(outstanding) = 1
    /\ ENABLED (\E value \in PropertyValues("uint8") :
                   stateSensorMatch(2, FALSE, value, NoId, TRUE, TRUE))

RECURSIVE OffsetsOf(_, _)
OffsetsOf(requests, cmd) ==
    IF requests = <<>> THEN <<>>
    ELSE (IF Head(requests).cmd = cmd THEN <<Head(requests).off>> ELSE <<>>)
         \o OffsetsOf(Tail(requests), cmd)

\* C27: the k-th UpdateComponent request of a session is for component
\* k-1: the positions are sent in order, none twice and none skipped,
\* whatever ApplyComplete messages, cancel responses and timer expiries
\* arrive.
C27_UpdateComponentConsecutive ==
    \A k \in 1 .. Len(OffsetsOf(sent, "UpdateComponent")) :
        OffsetsOf(sent, "UpdateComponent")[k] = k - 1

\* C28: within one session updateDeviceCompletion is not called both with
\* true and with false: after a failure report no success is reported, and
\* the other way round.
C28_NeverBothReports == completions.t = 0 \/ completions.f = 0

ActivateFirmwareSent ==
    \E k \in 1 .. Len(sent) : sent[k].cmd = "ActivateFirmware"

\* C29: ActivateFirmware is neither scheduled nor sent in a session in
\* which no component reached ApplyComplete with a success result.
C29_NoActivationWithoutSuccess ==
    (ActivateFirmwareSent \/ pldmRequest.task = "sendActivateFirmwareRequest")
        => succeeded

\* C30: after an emission for (sensor_id, offset) the cache holds the value
\* reported as previous in that emission; a cache entry that has left
\* UNKNOWN never changes again; the first emission reports its own state
\* code as previous and every later emission reports the cached value, so
\* that every emission carries in event_class[2] the state code of the
\* first emission.
C30_CacheHoldsFirstEmission ==
    [][/\ \A so \in SensorOffsets :
             CachedState(sensorCacheMap, so[1], so[2]) # PLDM_SENSOR_UNKNOWN =>
                 CachedState(sensorCacheMap', so[1], so[2]) =
                     CachedState(sensorCacheMap, so[1], so[2])
       /\ \A k \in 1 .. Len(stateSensorMatchs), i \in SendInputs :
             \A value \in PropertyValues(
                     DbusMaps[stateSensorMatchs[k].sensorId]
                             [stateSensorMatchs[k].offset + 1].propertyType) :
                (/\ Registered(i[1], "PlatformEventMessage", i[2], i[3])
                 /\ stateSensorMatch(k, TRUE, value, i[1], i[2], i[3])
                 /\ MatchingEntries(k, value) # {}) =>
                    LET sub == stateSensorMatchs[k]
                        first == lastEmitted[<<sub.sensorId, sub.offset>>]
                                    = PLDM_SENSOR_UNKNOWN
                        previous == stateSensorMatchs'[k].eventClass[3]
                    IN /\ CachedState(sensorCacheMap', sub.sensorId,
                                      sub.offset) = previous
                       /\ previous =
                              IF first THEN MatchedState(k, value)
                              ELSE CachedState(sensorCacheMap, sub.sensorId,
                                               sub.offset)]_vars

Reported == completions.t + completions.f > 0

\* C31: when every send succeeds, every request is answered with a
\* decodable response, deferred tasks and armed timers fire and the device
\* either completes each component or falls silent after its first data
\* request, every started session eventually reaches a state in which
\* updateDeviceCompletion has been called.
C31_SessionTerminates == started ~> Reported

====
